---- MODULE Spec2Model ----
(***************************************************************************)
(* clair-scanner: the scan workflow of start (src/main.go) and the         *)
(* whitelist approval of vulnerabilitiesApproved.                          *)
(*                                                                         *)
(* Strings the code only compares or prints are TLA+ strings; an image     *)
(* name, which the code splits at ":", is a sequence of one-character      *)
(* strings. A Go map is a function whose DOMAIN is the map's key set; a    *)
(* nil map and an empty map are both the function with empty domain (the   *)
(* code only takes len() of them and looks keys up). A Go pointer is a     *)
(* record with a field nil. An error value is a record [nil, msg].         *)
(***************************************************************************)
EXTENDS Integers, Sequences, FiniteSets, TLC

\* ---------------------------------------------------------------- bounds
MaxNameLen == 2
MaxFindings == 3
MaxLayers == 2
MaxFeatures == 2

\* ------------------------------------------------------------ Go values
NilError == [nil |-> TRUE]
NewError(m) == [nil |-> FALSE, msg |-> m]
NilPtr == [nil |-> TRUE]
EmptyMap == [k \in {} |-> "ok"]

\* type vulnerabilityInfo
vulnerabilityInfo(name, ns, sev) ==
    [vulnerability |-> name, namespace |-> ns, severity |-> sev]

\* type vulnerabilitiesWhitelist
vulnerabilitiesWhitelist(general, images) ==
    [GeneralWhitelist |-> general, Images |-> images]

\* ------------------------------------------------------- strings.Split
\* Index of the first occurrence of sep in s at or after position i, 0 if none.
RECURSIVE IndexFrom(_, _, _)
IndexFrom(s, sep, i) ==
    IF i > Len(s) THEN 0
    ELSE IF s[i] = sep THEN i
    ELSE IndexFrom(s, sep, i + 1)

\* strings.Split(s, sep) for a one-character separator: the pieces of s
\* between the occurrences of sep; Split of the empty string is <<"">>.
RECURSIVE Split(_, _)
Split(s, sep) ==
    LET i == IndexFrom(s, sep, 1)
    IN IF i = 0 THEN <<s>>
       ELSE <<SubSeq(s, 1, i - 1)>> \o Split(SubSeq(s, i + 1, Len(s)), sep)

\* ------------------------------------------------- fmt.Errorf("%s", []string)
RECURSIVE JoinStrings(_, _)
JoinStrings(names, i) ==
    IF i > Len(names) THEN ""
    ELSE (IF i > 1 THEN " " ELSE "") \o names[i] \o JoinStrings(names, i + 1)

\* The %s verb on a []string prints "[a b c]".
FormatStrings(names) == "[" \o JoinStrings(names, 1) \o "]"

\* ------------------------------------------- getImageVulnerabilities
\* A plausible slip: look the image up under its full name, tag included.
getImageVulnerabilitiesNoSplit(imageName, whitelistImageVulnerabilities) ==
    IF imageName \in DOMAIN whitelistImageVulnerabilities
    THEN whitelistImageVulnerabilities[imageName]
    ELSE EmptyMap

\* A plausible slip: the entries of every image are taken together.
getImageVulnerabilitiesAnyKey(imageName, whitelistImageVulnerabilities) ==
    LET keys == DOMAIN whitelistImageVulnerabilities
        all == UNION {DOMAIN whitelistImageVulnerabilities[k] : k \in keys}
    IN [v \in all |-> "ok"]

getImageVulnerabilities(imageName, whitelistImageVulnerabilities) ==
    LET imageWithoutVersion == Split(imageName, ":")
    IN IF imageWithoutVersion[1] \in DOMAIN whitelistImageVulnerabilities
       THEN whitelistImageVulnerabilities[imageWithoutVersion[1]]
       ELSE EmptyMap

\* ------------------------------------------- vulnerabilitiesApproved
\* One iteration of the loop at lines 114-129: the unapproved list after
\* looking at vulnerabilities[i].
ApproveIteration(unapproved, vulnerability, whitelist, imageVulnerabilities) ==
    LET vulnerable0 == TRUE
        vulnerable1 == IF vulnerability \in DOMAIN whitelist.GeneralWhitelist
                       THEN FALSE ELSE vulnerable0
        vulnerable2 == IF vulnerable1 /\ Cardinality(DOMAIN imageVulnerabilities) > 0
                       THEN (IF vulnerability \in DOMAIN imageVulnerabilities
                             THEN FALSE ELSE vulnerable1)
                       ELSE vulnerable1
    IN IF vulnerable2 THEN Append(unapproved, vulnerability) ELSE unapproved

RECURSIVE ApproveLoop(_, _, _, _, _)
ApproveLoop(i, unapproved, vulnerabilities, whitelist, imageVulnerabilities) ==
    IF i > Len(vulnerabilities) THEN unapproved
    ELSE ApproveLoop(i + 1,
                     ApproveIteration(unapproved, vulnerabilities[i].vulnerability,
                                      whitelist, imageVulnerabilities),
                     vulnerabilities, whitelist, imageVulnerabilities)

\* The local variable unapproved when the loop ends.
Unapproved(imageName, vulnerabilities, whitelist) ==
    ApproveLoop(1, <<>>, vulnerabilities, whitelist,
                getImageVulnerabilities(imageName, whitelist.Images))

\* A plausible slip: report each identifier once.
RECURSIVE Dedup(_)
Dedup(s) ==
    IF s = <<>> THEN <<>>
    ELSE LET front == Dedup(SubSeq(s, 1, Len(s) - 1))
             last == s[Len(s)]
         IN IF \E j \in 1..Len(front) : front[j] = last
            THEN front ELSE Append(front, last)

vulnerabilitiesApprovedDedup(imageName, vulnerabilities, whitelist) ==
    LET unapproved == Dedup(Unapproved(imageName, vulnerabilities, whitelist))
    IN [unapproved |-> unapproved,
        err |-> IF Len(unapproved) > 0
                THEN NewError(FormatStrings(unapproved)) ELSE NilError]

\* The returned error, with the local list it was formatted from.
vulnerabilitiesApproved(imageName, vulnerabilities, whitelist) ==
    LET unapproved == Unapproved(imageName, vulnerabilities, whitelist)
    IN [unapproved |-> unapproved,
        err |-> IF Len(unapproved) > 0
                THEN NewError(FormatStrings(unapproved)) ELSE NilError]

\* --------------------------------------------------- the analyzer's answer
\* What http.Get hands back for the fetch: a transport error, or a response
\* with a status code and a body. A body carries its text (printed for a
\* non-200 status) and what json Decode makes of it: a decode error, or a
\* v1.LayerEnvelope with its two pointers Error and Layer.
HttpFailure(m) == [err |-> NewError(m)]
HttpResponse(code, body) == [err |-> NilError, StatusCode |-> code, Body |-> body]
BadBody(text) ==
    [text |-> text, decodeErr |-> NewError("invalid character"),
     Error |-> NilPtr, Layer |-> NilPtr]
Envelope(text, error, layer) ==
    [text |-> text, decodeErr |-> NilError, Error |-> error, Layer |-> layer]
ErrorPtr(m) == [nil |-> FALSE, Message |-> m]
LayerPtr(features) == [nil |-> FALSE, Features |-> features]
\* v1.Layer{}: the zero layer
ZeroLayer == [Features |-> <<>>]

\* const getLayerFeaturesURI = "/v1/layers/%s?vulnerabilities"
FetchURL(clairURL, layerID) ==
    clairURL \o "/v1/layers/" \o layerID \o "?vulnerabilities"

\* ------------------------------------------- fetchLayerVulnerabilities
\* A plausible slip: the envelope's error object is not looked at.
fetchLayerVulnerabilitiesNoEnvelopeError(clairURL, layerID, response) ==
    IF ~response.err.nil
    THEN [outcome |-> "return", layer |-> ZeroLayer, err |-> response.err]
    ELSE IF response.StatusCode # 200
    THEN [outcome |-> "return", layer |-> ZeroLayer,
          err |-> NewError("Got response " \o ToString(response.StatusCode)
                           \o " with message " \o response.Body.text)]
    ELSE IF ~response.Body.decodeErr.nil
    THEN [outcome |-> "return", layer |-> ZeroLayer, err |-> response.Body.decodeErr]
    ELSE IF response.Body.Layer.nil
    THEN [outcome |-> "return", layer |-> ZeroLayer, err |-> NilError]
    ELSE [outcome |-> "return",
          layer |-> [Features |-> response.Body.Layer.Features],
          err |-> NilError]

\* response is what http.Get returned for FetchURL(clairURL, layerID).
\* Dereferencing the nil Layer pointer at line 188 is a run-time panic.
fetchLayerVulnerabilities(clairURL, layerID, response) ==
    IF ~response.err.nil
    THEN [outcome |-> "return", layer |-> ZeroLayer, err |-> response.err]
    ELSE IF response.StatusCode # 200
    THEN [outcome |-> "return", layer |-> ZeroLayer,
          err |-> NewError("Got response " \o ToString(response.StatusCode)
                           \o " with message " \o response.Body.text)]
    ELSE IF ~response.Body.decodeErr.nil
    THEN [outcome |-> "return", layer |-> ZeroLayer, err |-> response.Body.decodeErr]
    ELSE IF ~response.Body.Error.nil
    THEN [outcome |-> "return", layer |-> ZeroLayer,
          err |-> NewError(response.Body.Error.Message)]
    ELSE IF response.Body.Layer.nil
    THEN [outcome |-> "panic",
          msg |-> "invalid memory address or nil pointer dereference"]
    ELSE [outcome |-> "return",
          layer |-> [Features |-> response.Body.Layer.Features],
          err |-> NilError]

\* ------------------------------------------------- getVulnerabilities
\* The loops at lines 157-164: every vulnerability of every feature, in order.
RECURSIVE FeatureVulnerabilities(_, _)
FeatureVulnerabilities(vs, j) ==
    IF j > Len(vs) THEN <<>>
    ELSE <<vulnerabilityInfo(vs[j].Name, vs[j].NamespaceName, vs[j].Severity)>>
         \o FeatureVulnerabilities(vs, j + 1)

RECURSIVE CollectVulnerabilities(_, _)
CollectVulnerabilities(features, i) ==
    IF i > Len(features) THEN <<>>
    ELSE (IF Len(features[i].Vulnerabilities) > 0
          THEN FeatureVulnerabilities(features[i].Vulnerabilities, 1)
          ELSE <<>>)
         \o CollectVulnerabilities(features, i + 1)

\* A plausible slip: zero features is reported as an error.
getVulnerabilitiesZeroIsError(clairURL, layerIds, response) ==
    IF Len(layerIds) = 0
    THEN [outcome |-> "panic", msg |-> "index out of range", requests |-> <<>>]
    ELSE
    LET layerID == layerIds[Len(layerIds)]
        raw == fetchLayerVulnerabilities(clairURL, layerID, response)
        requests == <<FetchURL(clairURL, layerID)>>
    IN IF raw.outcome = "panic"
       THEN [outcome |-> "panic", msg |-> raw.msg, requests |-> requests]
       ELSE IF ~raw.err.nil
       THEN [outcome |-> "return", vulnerabilities |-> <<>>, err |-> raw.err,
             warned |-> FALSE, requests |-> requests]
       ELSE IF Len(raw.layer.Features) = 0
       THEN [outcome |-> "return", vulnerabilities |-> <<>>,
             err |-> NewError("No features have been detected in the image"),
             warned |-> FALSE, requests |-> requests]
       ELSE [outcome |-> "return",
             vulnerabilities |-> CollectVulnerabilities(raw.layer.Features, 1),
             err |-> NilError, warned |-> FALSE, requests |-> requests]

\* response is the analyzer's answer to the one fetch the function issues;
\* requests are the URLs it asked for. Indexing an empty layerIds at line
\* 148 is a run-time panic, raised before anything is sent.
getVulnerabilities(clairURL, layerIds, response) ==
    IF Len(layerIds) = 0
    THEN [outcome |-> "panic", msg |-> "index out of range", requests |-> <<>>]
    ELSE
    LET layerID == layerIds[Len(layerIds)]
        raw == fetchLayerVulnerabilities(clairURL, layerID, response)
        requests == <<FetchURL(clairURL, layerID)>>
    IN IF raw.outcome = "panic"
       THEN [outcome |-> "panic", msg |-> raw.msg, requests |-> requests]
       ELSE IF ~raw.err.nil
       THEN [outcome |-> "return", vulnerabilities |-> <<>>, err |-> raw.err,
             warned |-> FALSE, requests |-> requests]
       ELSE IF Len(raw.layer.Features) = 0
       THEN [outcome |-> "return", vulnerabilities |-> <<>>, err |-> NilError,
             warned |-> TRUE, requests |-> requests]
       ELSE [outcome |-> "return",
             vulnerabilities |-> CollectVulnerabilities(raw.layer.Features, 1),
             err |-> NilError, warned |-> FALSE, requests |-> requests]

\* What getVulnerabilities does before it waits for the analyzer (line 148
\* and the http.Get of line 169): the panic on an empty layerIds, or the one
\* request, for the last layer.
fetchRequests(clairURL, layerIds) ==
    IF Len(layerIds) = 0
    THEN [outcome |-> "panic", msg |-> "index out of range", requests |-> <<>>]
    ELSE [outcome |-> "send",
          requests |-> <<FetchURL(clairURL, layerIds[Len(layerIds)])>>]

\* ------------------------------------------------------------ the inputs
Chars == {"a", "b", ":"}
\* image names: every string of at most MaxNameLen characters
ImageNames == UNION {[1..k -> Chars] : k \in 0..MaxNameLen}
\* keys the whitelist file may use for its per-image entries
ImageKeys == {<<"a">>, <<"a", ":">>}
VulnNames == {"CVE-1", "CVE-2"}
\* maps from vulnerability identifier to description
WhitelistMaps == UNION {[d -> {"ok"}] : d \in SUBSET VulnNames}
ImagesMaps == UNION {[d -> WhitelistMaps] : d \in SUBSET ImageKeys}
Whitelists ==
    {vulnerabilitiesWhitelist(g, im) : g \in WhitelistMaps, im \in ImagesMaps}
\* findings the analyzer may report; two share a name in different namespaces
VulnPool ==
    {vulnerabilityInfo("CVE-1", "os", "High"),
     vulnerabilityInfo("CVE-2", "os", "Low"),
     vulnerabilityInfo("CVE-1", "pkg", "Low")}
FindingLists == UNION {[1..k -> VulnPool] : k \in 0..MaxFindings}

\* the inputs of the runs of start
RunImageNames == {<<"a", ":", "b">>, <<"b">>}
RunWhitelists ==
    {vulnerabilitiesWhitelist(EmptyMap, EmptyMap),
     vulnerabilitiesWhitelist([v \in {"CVE-1"} |-> "ok"], EmptyMap),
     vulnerabilitiesWhitelist(EmptyMap,
         [k \in {<<"a">>} |-> [v \in {"CVE-1", "CVE-2"} |-> "ok"]]),
     vulnerabilitiesWhitelist([v \in {"CVE-2"} |-> "ok"],
         [k \in {<<"b">>} |-> [v \in {"CVE-1"} |-> "ok"]])}
ClairURL == "http://clair"
LayerIDs == {"L1", "L2", "L3"}
\* what the Image Source may return: at most MaxLayers distinct layer IDs
LayerIdSeqs ==
    {q \in UNION {[1..k -> LayerIDs] : k \in 0..MaxLayers} :
        \A i, j \in 1..Len(q) : i # j => q[i] # q[j]}

\* the analyzer's features and answers
ApiVuln(v) == [Name |-> v.vulnerability, NamespaceName |-> v.namespace,
               Severity |-> v.severity]
FeaturePool ==
    {[Vulnerabilities |-> <<>>],
     [Vulnerabilities |-> <<ApiVuln(vulnerabilityInfo("CVE-1", "os", "High"))>>],
     [Vulnerabilities |-> <<ApiVuln(vulnerabilityInfo("CVE-2", "os", "Low")),
                            ApiVuln(vulnerabilityInfo("CVE-1", "pkg", "Low"))>>]}
FeatureLists == UNION {[1..k -> FeaturePool] : k \in 0..MaxFeatures}
Responses ==
    {HttpFailure("connection refused")}
    \cup {HttpResponse(c, BadBody("not found")) : c \in {201, 404, 500}}
    \cup {HttpResponse(200, BadBody("<html>"))}
    \cup {HttpResponse(200, Envelope("{}", NilPtr, NilPtr))}
    \cup {HttpResponse(200, Envelope("{error}", ErrorPtr("layer unknown"), NilPtr))}
    \cup {HttpResponse(200, Envelope("{error,layer}", ErrorPtr("layer unknown"),
                                     LayerPtr(<<>>)))}
    \cup {HttpResponse(200, Envelope("{layer}", NilPtr, LayerPtr(f))) :
            f \in FeatureLists}

NoResponse == [none |-> TRUE]
NoDecision == [none |-> TRUE]
NoExit == [none |-> TRUE]

\* -------------------------------------------------------------- the state
VARIABLES
    phase,            \* "running", "unwinding" (deferred calls run), "exited",
                      \* or "decide"/"decided" when the approval runs alone
    step,             \* the statement of start that runs next
    sub,              \* where that statement is: "call", "wait" (the fetch
                      \* is sent, no answer yet), "answered", "returned"
    imageName,        \* start's arguments
    whitelist,
    layerIds,         \* what getImageLayerIds returned
    tmpCreated,       \* createTmpPath has made the directory
    removeAllCalls,   \* calls of os.RemoveAll(tmpPath)
    serverStarted,    \* httpFileServer has returned a server
    shutdownCalls,    \* calls of server.Shutdown
    deferred,         \* start's deferred calls, last deferred last
    sigHandler,       \* listenForSignal has its handler
    submitted,        \* the layers analyzeLayers has submitted
    requests,         \* the fetch URLs sent to the analyzer
    response,         \* the analyzer's answer to the fetch
    vulnerabilities,  \* getVulnerabilities' results
    err,
    decision,         \* vulnerabilitiesApproved's result
    panicking,        \* a run-time panic is unwinding start
    exit,             \* how the process ended
    trace             \* the calls start has made, in order

vars == <<phase, step, sub, imageName, whitelist, layerIds, tmpCreated,
          removeAllCalls, serverStarted, shutdownCalls, deferred, sigHandler,
          submitted, requests, response, vulnerabilities, err, decision,
          panicking, exit, trace>>

\* A plausible slip: the analyzer is driven before the server is started.
startStepsServerLate ==
    <<"createTmpPath", "listenForSignal", "saveDockerImage", "getImageLayerIds",
      "analyzeLayers", "httpFileServer", "getVulnerabilities",
      "vulnerabilitiesApproved">>

\* The statements of start, lines 86-105, in the order they are written.
startSteps ==
    <<"createTmpPath", "listenForSignal", "saveDockerImage", "getImageLayerIds",
      "httpFileServer", "analyzeLayers", "getVulnerabilities",
      "vulnerabilitiesApproved">>

At(name) ==
    /\ phase = "running"
    /\ sub = "call"
    /\ step \in 1..Len(startSteps)
    /\ startSteps[step] = name

\* log.Fatalf: print and os.Exit(1); deferred calls do not run.
Fatalf(outcome, msg) ==
    /\ phase' = "exited"
    /\ exit' = [code |-> 1, outcome |-> outcome, msg |-> msg]

Init ==
    /\ phase = "running"
    /\ step = 1
    /\ sub = "call"
    /\ imageName \in RunImageNames
    /\ whitelist \in RunWhitelists
    /\ layerIds = <<>>
    /\ tmpCreated = FALSE
    /\ removeAllCalls = 0
    /\ serverStarted = FALSE
    /\ shutdownCalls = 0
    /\ deferred = <<>>
    /\ sigHandler = FALSE
    /\ submitted = <<>>
    /\ requests = <<>>
    /\ response = NoResponse
    /\ vulnerabilities = <<>>
    /\ err = NilError
    /\ decision = NoDecision
    /\ panicking = FALSE
    /\ exit = NoExit
    /\ trace = <<>>

\* ------------------------------------------------------- start, by statement
\* lines 86-87: the workspace is made and its removal deferred
createTmpPath ==
    /\ At("createTmpPath")
    /\ tmpCreated' = TRUE
    /\ deferred' = Append(deferred, "os.RemoveAll")
    /\ step' = step + 1
    /\ trace' = Append(trace, "createTmpPath")
    /\ UNCHANGED <<phase, sub, imageName, whitelist, layerIds, removeAllCalls,
                   serverStarted, shutdownCalls, sigHandler, submitted, requests,
                   response, vulnerabilities, err, decision, panicking, exit>>

\* lines 89-91: the goroutine that waits for a signal is started
listenForSignal ==
    /\ At("listenForSignal")
    /\ sigHandler' = TRUE
    /\ step' = step + 1
    /\ UNCHANGED <<phase, sub, imageName, whitelist, layerIds, tmpCreated,
                   removeAllCalls, serverStarted, shutdownCalls, deferred,
                   submitted, requests, response, vulnerabilities, err, decision,
                   panicking, exit, trace>>

\* line 90: the handler, run when a signal arrives while the process lives
Interrupt ==
    /\ sigHandler
    /\ phase \in {"running", "unwinding"}
    /\ Fatalf("interrupted", "Application interupted interrupt")
    /\ UNCHANGED <<step, sub, imageName, whitelist, layerIds, tmpCreated,
                   removeAllCalls, serverStarted, shutdownCalls, deferred,
                   sigHandler, submitted, requests, response, vulnerabilities,
                   err, decision, panicking, trace>>

\* line 93
saveDockerImage ==
    /\ At("saveDockerImage")
    /\ step' = step + 1
    /\ trace' = Append(trace, "saveDockerImage")
    /\ UNCHANGED <<phase, sub, imageName, whitelist, layerIds, tmpCreated,
                   removeAllCalls, serverStarted, shutdownCalls, deferred,
                   sigHandler, submitted, requests, response, vulnerabilities,
                   err, decision, panicking, exit>>

\* The workspace cannot be allocated or the image cannot be exported: the
\* helper ends the process at once.
EnvironmentFailure ==
    /\ At("createTmpPath") \/ At("saveDockerImage")
    /\ trace' = Append(trace, startSteps[step])
    /\ Fatalf("environment", "environment error")
    /\ UNCHANGED <<step, sub, imageName, whitelist, layerIds, tmpCreated,
                   removeAllCalls, serverStarted, shutdownCalls, deferred,
                   sigHandler, submitted, requests, response, vulnerabilities,
                   err, decision, panicking>>

\* line 94: the Image Source returns the layer IDs, outermost last
getImageLayerIds ==
    /\ At("getImageLayerIds")
    /\ \E ids \in LayerIdSeqs : layerIds' = ids
    /\ step' = step + 1
    /\ trace' = Append(trace, "getImageLayerIds")
    /\ UNCHANGED <<phase, sub, imageName, whitelist, tmpCreated, removeAllCalls,
                   serverStarted, shutdownCalls, deferred, sigHandler, submitted,
                   requests, response, vulnerabilities, err, decision, panicking,
                   exit>>

\* lines 97-98: the layer server is started and its shutdown deferred
httpFileServer ==
    /\ At("httpFileServer")
    /\ serverStarted' = TRUE
    /\ deferred' = Append(deferred, "server.Shutdown")
    /\ step' = step + 1
    /\ trace' = Append(trace, "httpFileServer")
    /\ UNCHANGED <<phase, sub, imageName, whitelist, layerIds, tmpCreated,
                   removeAllCalls, shutdownCalls, sigHandler, submitted, requests,
                   response, vulnerabilities, err, decision, panicking, exit>>

\* line 100, analyzeLayers: one submission per layer, in the order of
\* layerIds, each with the previous layer as its parent
submitLayer ==
    /\ At("analyzeLayers")
    /\ Len(submitted) < Len(layerIds)
    /\ LET i == Len(submitted) + 1
       IN submitted' = Append(submitted,
              [layer |-> layerIds[i],
               parent |-> IF i = 1 THEN "" ELSE layerIds[i - 1]])
    /\ trace' = Append(trace, "submitLayer")
    /\ UNCHANGED <<phase, step, sub, imageName, whitelist, layerIds, tmpCreated,
                   removeAllCalls, serverStarted, shutdownCalls, deferred,
                   sigHandler, requests, response, vulnerabilities, err, decision,
                   panicking, exit>>

\* a submission the analyzer refuses ends the process at once
submitLayerFails ==
    /\ At("analyzeLayers")
    /\ Len(submitted) < Len(layerIds)
    /\ trace' = Append(trace, "submitLayer")
    /\ Fatalf("submission", "Could not analyze layer")
    /\ UNCHANGED <<step, sub, imageName, whitelist, layerIds, tmpCreated,
                   removeAllCalls, serverStarted, shutdownCalls, deferred,
                   sigHandler, submitted, requests, response, vulnerabilities,
                   err, decision, panicking>>

\* analyzeLayers returns when every layer is submitted
analyzeLayersReturns ==
    /\ At("analyzeLayers")
    /\ Len(submitted) = Len(layerIds)
    /\ step' = step + 1
    /\ UNCHANGED <<phase, sub, imageName, whitelist, layerIds, tmpCreated,
                   removeAllCalls, serverStarted, shutdownCalls, deferred,
                   sigHandler, submitted, requests, response, vulnerabilities,
                   err, decision, panicking, exit, trace>>

\* The statement of start at step, whatever point it has reached.
Within(name, at) ==
    /\ phase = "running"
    /\ step \in 1..Len(startSteps)
    /\ startSteps[step] = name
    /\ sub = at

\* lines 101, 148, 169: getVulnerabilities is called and sends its request
\* for the last layer, or panics on an empty layerIds before sending
sendFetch ==
    /\ At("getVulnerabilities")
    /\ LET s == fetchRequests(ClairURL, layerIds)
       IN /\ requests' = requests \o s.requests
          /\ IF s.outcome = "panic"
             THEN /\ panicking' = TRUE
                  /\ phase' = "unwinding"
                  /\ UNCHANGED sub
             ELSE /\ sub' = "wait"
                  /\ UNCHANGED <<phase, panicking>>
    /\ trace' = Append(trace, "getVulnerabilities")
    /\ UNCHANGED <<step, imageName, whitelist, layerIds, tmpCreated,
                   removeAllCalls, serverStarted, shutdownCalls, deferred,
                   sigHandler, submitted, response, vulnerabilities, err,
                   decision, exit>>

\* line 169: http.Get, which blocked, has the analyzer's answer
receiveAnswer ==
    /\ Within("getVulnerabilities", "wait")
    /\ \E resp \in Responses : response' = resp
    /\ sub' = "answered"
    /\ UNCHANGED <<phase, step, imageName, whitelist, layerIds, tmpCreated,
                   removeAllCalls, serverStarted, shutdownCalls, deferred,
                   sigHandler, submitted, requests, vulnerabilities, err,
                   decision, panicking, exit, trace>>

\* lines 101, 149-165, 170-188: the answer is read and getVulnerabilities
\* returns its findings and error to start, or panics
getVulnerabilitiesReturns ==
    /\ Within("getVulnerabilities", "answered")
    /\ LET r == getVulnerabilities(ClairURL, layerIds, response)
       IN IF r.outcome = "panic"
          THEN /\ panicking' = TRUE
               /\ phase' = "unwinding"
               /\ UNCHANGED <<sub, vulnerabilities, err>>
          ELSE /\ vulnerabilities' = r.vulnerabilities
               /\ err' = r.err
               /\ sub' = "returned"
               /\ UNCHANGED <<phase, panicking>>
    /\ UNCHANGED <<step, imageName, whitelist, layerIds, tmpCreated,
                   removeAllCalls, serverStarted, shutdownCalls, deferred,
                   sigHandler, submitted, requests, response, decision, exit,
                   trace>>

\* lines 102-104
checkAnalyzeError ==
    /\ Within("getVulnerabilities", "returned")
    /\ IF ~err.nil
       THEN /\ Fatalf("analyze", "Analyzing failed: " \o err.msg)
            /\ UNCHANGED <<step, sub>>
       ELSE /\ step' = step + 1
            /\ sub' = "call"
            /\ UNCHANGED <<phase, exit>>
    /\ UNCHANGED <<imageName, whitelist, layerIds, tmpCreated, removeAllCalls,
                   serverStarted, shutdownCalls, deferred, sigHandler, submitted,
                   requests, response, vulnerabilities, err, decision, panicking,
                   trace>>

\* line 105: the approval decision is evaluated and its error assigned
callVulnerabilitiesApproved ==
    /\ At("vulnerabilitiesApproved")
    /\ LET d == vulnerabilitiesApproved(imageName, vulnerabilities, whitelist)
       IN /\ decision' = d
          /\ err' = d.err
    /\ sub' = "returned"
    /\ trace' = Append(trace, "vulnerabilitiesApproved")
    /\ UNCHANGED <<phase, step, imageName, whitelist, layerIds, tmpCreated,
                   removeAllCalls, serverStarted, shutdownCalls, deferred,
                   sigHandler, submitted, requests, response, vulnerabilities,
                   panicking, exit>>

\* lines 105-107
checkApproved ==
    /\ Within("vulnerabilitiesApproved", "returned")
    /\ IF ~err.nil
       THEN /\ Fatalf("rejected",
                  "Image contains unapproved vulnerabilities: " \o err.msg)
            /\ UNCHANGED <<step, sub>>
       ELSE /\ step' = step + 1
            /\ sub' = "call"
            /\ UNCHANGED <<phase, exit>>
    /\ UNCHANGED <<imageName, whitelist, layerIds, tmpCreated, removeAllCalls,
                   serverStarted, shutdownCalls, deferred, sigHandler, submitted,
                   requests, response, vulnerabilities, err, decision, panicking,
                   trace>>

\* line 108: start returns and its deferred calls begin to run
startReturns ==
    /\ phase = "running"
    /\ step = Len(startSteps) + 1
    /\ sub = "call"
    /\ phase' = "unwinding"
    /\ UNCHANGED <<step, sub, imageName, whitelist, layerIds, tmpCreated,
                   removeAllCalls, serverStarted, shutdownCalls, deferred,
                   sigHandler, submitted, requests, response, vulnerabilities,
                   err, decision, panicking, exit, trace>>

\* lines 87 and 98: a deferred call runs, the last deferred first, when
\* start returns or panics
runDeferred ==
    /\ phase = "unwinding"
    /\ deferred # <<>>
    /\ LET call == deferred[Len(deferred)]
       IN /\ removeAllCalls' =
                 IF call = "os.RemoveAll" THEN removeAllCalls + 1 ELSE removeAllCalls
          /\ shutdownCalls' =
                 IF call = "server.Shutdown" THEN shutdownCalls + 1 ELSE shutdownCalls
    /\ deferred' = SubSeq(deferred, 1, Len(deferred) - 1)
    /\ UNCHANGED <<phase, step, sub, imageName, whitelist, layerIds, tmpCreated,
                   serverStarted, sigHandler, submitted, requests, response,
                   vulnerabilities, err, decision, panicking, exit, trace>>

\* the process ends: status 0 after start returned, the run-time's status 2
\* after a panic
processEnds ==
    /\ phase = "unwinding"
    /\ deferred = <<>>
    /\ phase' = "exited"
    /\ exit' = IF panicking
               THEN [code |-> 2, outcome |-> "panic", msg |-> "panic"]
               ELSE [code |-> 0, outcome |-> "approved", msg |-> ""]
    /\ UNCHANGED <<step, sub, imageName, whitelist, layerIds, tmpCreated,
                   removeAllCalls, serverStarted, shutdownCalls, deferred,
                   sigHandler, submitted, requests, response, vulnerabilities,
                   err, decision, panicking, trace>>

Next ==
    \/ createTmpPath
    \/ listenForSignal
    \/ Interrupt
    \/ saveDockerImage
    \/ EnvironmentFailure
    \/ getImageLayerIds
    \/ httpFileServer
    \/ submitLayer
    \/ submitLayerFails
    \/ analyzeLayersReturns
    \/ sendFetch
    \/ receiveAnswer
    \/ getVulnerabilitiesReturns
    \/ checkAnalyzeError
    \/ callVulnerabilitiesApproved
    \/ checkApproved
    \/ startReturns
    \/ runDeferred
    \/ processEnds

Spec == Init /\ [][Next]_vars

\* ------------------------------------------- the approval decision alone
InitApproval ==
    /\ phase = "decide"
    /\ step = 0
    /\ sub = "call"
    /\ imageName \in ImageNames
    /\ whitelist \in Whitelists
    /\ vulnerabilities \in FindingLists
    /\ layerIds = <<>>
    /\ tmpCreated = FALSE
    /\ removeAllCalls = 0
    /\ serverStarted = FALSE
    /\ shutdownCalls = 0
    /\ deferred = <<>>
    /\ sigHandler = FALSE
    /\ submitted = <<>>
    /\ requests = <<>>
    /\ response = NoResponse
    /\ err = NilError
    /\ decision = NoDecision
    /\ panicking = FALSE
    /\ exit = NoExit
    /\ trace = <<>>

\* vulnerabilitiesApproved(imageName, vulnerabilities, whitelist) is called
decide ==
    /\ phase = "decide"
    /\ decision' = vulnerabilitiesApproved(imageName, vulnerabilities, whitelist)
    /\ err' = decision'.err
    /\ phase' = "decided"
    /\ UNCHANGED <<step, sub, imageName, whitelist, layerIds, tmpCreated,
                   removeAllCalls, serverStarted, shutdownCalls, deferred,
                   sigHandler, submitted, requests, response, vulnerabilities,
                   panicking, exit, trace>>

NextApproval == decide

SpecApproval == InitApproval /\ [][NextApproval]_vars

\* ----------------------------------------------------------- properties
\* The image name truncated before its first ":".
ImageKeyOf(name) ==
    LET k == CHOOSE n \in 0..Len(name) :
                 /\ \A i \in 1..n : name[i] # ":"
                 /\ (n = Len(name) \/ name[n + 1] = ":")
    IN SubSeq(name, 1, k)

InGeneral(name, wl) == name \in DOMAIN wl.GeneralWhitelist
InPerImage(name, image, wl) ==
    /\ ImageKeyOf(image) \in DOMAIN wl.Images
    /\ name \in DOMAIN wl.Images[ImageKeyOf(image)]
Covered(name, image, wl) == InGeneral(name, wl) \/ InPerImage(name, image, wl)
InSeq(x, q) == \E i \in 1..Len(q) : q[i] = x
Exited == phase = "exited"

\* C1: in every run of start the workspace createTmpPath made is destroyed
\* exactly once before the process ends, whether the run was approved, ended
\* on a fetch error, was rejected by policy, or was interrupted.
C1_WorkspaceDestroyedOnce ==
    (/\ Exited
     /\ tmpCreated
     /\ exit.outcome \in {"approved", "analyze", "rejected", "interrupted"})
    => removeAllCalls = 1

\* C2: once the layer server is started, server.Shutdown is called before
\* the process ends, whether the scan was approved, rejected or aborted by a
\* fetch failure.
C2_ServerAlwaysStopped ==
    (/\ Exited
     /\ serverStarted
     /\ exit.outcome \in {"approved", "analyze", "rejected"})
    => shutdownCalls >= 1

Rank(call) ==
    CASE call = "createTmpPath" -> 1
      [] call = "saveDockerImage" -> 2
      [] call = "getImageLayerIds" -> 3
      [] call = "httpFileServer" -> 4
      [] call = "submitLayer" -> 5
      [] call = "getVulnerabilities" -> 6
      [] call = "vulnerabilitiesApproved" -> 7

\* C3: the calls of start happen in one fixed order: workspace creation,
\* image save, layer-ID resolution, layer server start, the submissions,
\* the fetch, the approval decision. Each is made at most once (a submission
\* once per layer) and none is skipped; the server is started before any
\* submission, and the fetch is issued only after every layer is submitted.
C3_FixedOrder ==
    /\ trace # <<>> => Rank(trace[1]) = 1
    /\ \A i \in 1..(Len(trace) - 1) :
         LET a == Rank(trace[i])
             b == Rank(trace[i + 1])
         IN \/ b = a + 1
            \/ a = 5 /\ b = 5
            \/ a = 4 /\ b = 6 /\ layerIds = <<>>
    /\ Len(submitted) <= Len(layerIds)
    /\ \A i \in 1..Len(submitted) : submitted[i].layer = layerIds[i]
    /\ submitted # <<>> => serverStarted
    /\ InSeq("submitLayer", trace) => serverStarted
    /\ (requests # <<>> \/ InSeq("getVulnerabilities", trace))
         => serverStarted /\ Len(submitted) = Len(layerIds)
    /\ decision # NoDecision => InSeq("getVulnerabilities", trace)

C3_Witness ==
    /\ Len(submitted) = 2
    /\ requests # <<>>
    /\ decision # NoDecision

\* C4: vulnerabilitiesApproved never puts in the rejected list the name of a
\* finding that is a key of the general whitelist, nor one that is a key of
\* the per-image whitelist stored under the image name truncated before its
\* first ":".
C4_WhitelistedNeverRejected ==
    phase = "decided" =>
        \A i \in 1..Len(decision.unapproved) :
            /\ ~InGeneral(decision.unapproved[i], whitelist)
            /\ ~InPerImage(decision.unapproved[i], imageName, whitelist)

C4_Witness ==
    /\ phase = "decided"
    /\ Len(imageName) > Len(ImageKeyOf(imageName))
    /\ decision.unapproved = <<>>
    /\ \E i, j \in 1..Len(vulnerabilities) :
         /\ InPerImage(vulnerabilities[i].vulnerability, imageName, whitelist)
         /\ ~InGeneral(vulnerabilities[i].vulnerability, whitelist)
         /\ InGeneral(vulnerabilities[j].vulnerability, whitelist)

\* The per-image entries with every key but the image's own removed.
OnlyImageKey(image, images) ==
    [k \in DOMAIN images \cap {ImageKeyOf(image)} |-> images[k]]

\* C5: a finding whose name is a key neither of the general whitelist nor of
\* the per-image whitelist of the scanned image's key makes the decision
\* rejected, with its name in the rejected list; per-image entries stored
\* under any other key change neither the decision nor the list (the result
\* is the one obtained with those entries removed).
C5_UncoveredRejectedAndIsolation ==
    phase = "decided" =>
        /\ \A i \in 1..Len(vulnerabilities) :
             ~Covered(vulnerabilities[i].vulnerability, imageName, whitelist)
             => /\ ~decision.err.nil
                /\ InSeq(vulnerabilities[i].vulnerability, decision.unapproved)
        /\ vulnerabilitiesApproved(imageName, vulnerabilities,
               [whitelist EXCEPT !.Images = OnlyImageKey(imageName, @)]) = decision

C5_Witness ==
    /\ phase = "decided"
    /\ ~decision.err.nil
    /\ \E k \in DOMAIN whitelist.Images, i \in 1..Len(vulnerabilities) :
         /\ k # ImageKeyOf(imageName)
         /\ vulnerabilities[i].vulnerability \in DOMAIN whitelist.Images[k]
         /\ InSeq(vulnerabilities[i].vulnerability, decision.unapproved)

\* The names of the findings no whitelist covers, in the findings' order.
ExpectedRejected(image, findings, wl) ==
    LET sel == SelectSeq(findings,
                   LAMBDA f : ~Covered(f.vulnerability, image, wl))
    IN [i \in 1..Len(sel) |-> sel[i].vulnerability]

\* C6: vulnerabilitiesApproved returns approved exactly when no finding is
\* unapproved (an empty finding list is always approved); otherwise the
\* rejected list holds one entry per unapproved finding, in the findings'
\* order, repeated identifiers kept, and nothing else.
C6_ApprovedIffNoneUnapproved ==
    phase = "decided" =>
        LET expected == ExpectedRejected(imageName, vulnerabilities, whitelist)
        IN /\ decision.err.nil = (expected = <<>>)
           /\ vulnerabilities = <<>> => decision.err.nil
           /\ decision.unapproved = expected
           /\ ~decision.err.nil => decision.err.msg = FormatStrings(expected)

C6_Witness ==
    /\ phase = "decided"
    /\ Len(vulnerabilities) = 3
    /\ decision.unapproved = <<"CVE-1", "CVE-1">>
    /\ decision.err = NewError("[CVE-1 CVE-1]")

\* The analyzer answered the fetch with a layer that has no features.
ZeroFeaturesAnswer ==
    /\ response # NoResponse
    /\ response.err.nil
    /\ response.StatusCode = 200
    /\ response.Body.decodeErr.nil
    /\ response.Body.Error.nil
    /\ ~response.Body.Layer.nil
    /\ response.Body.Layer.Features = <<>>

\* getVulnerabilities has returned to start (or start has gone further).
FetchReturned ==
    \/ step > Len(startSteps) - 1
    \/ sub = "returned"
    \/ Exited /\ exit.outcome # "interrupted"

\* C7: when the analyzer answers the fetch with zero features,
\* getVulnerabilities returns an empty finding list and no error, the run
\* goes on to the approval decision, which approves, and the run ends
\* successfully; only a signal can end it otherwise.
C7_ZeroFeaturesApproves ==
    ZeroFeaturesAnswer =>
        /\ vulnerabilities = <<>>
        /\ err.nil
        /\ ~panicking
        /\ decision # NoDecision => decision.err.nil /\ decision.unapproved = <<>>
        /\ Exited => \/ exit.outcome = "interrupted"
                     \/ /\ exit.outcome = "approved"
                        /\ exit.code = 0
                        /\ decision # NoDecision

C7_Witness ==
    /\ ZeroFeaturesAnswer
    /\ Exited
    /\ exit.code = 0
    /\ whitelist.GeneralWhitelist = EmptyMap

\* The analyzer's answer is a transport failure, a non-2xx response, or a
\* 200 response whose envelope carries an error object.
ErrorEnvelopeAnswer ==
    /\ response # NoResponse
    /\ response.err.nil
    /\ response.StatusCode = 200
    /\ response.Body.decodeErr.nil
    /\ ~response.Body.Error.nil

FailedAnswer ==
    /\ response # NoResponse
    /\ \/ ~response.err.nil
       \/ response.err.nil /\ response.StatusCode \notin 200..299
       \/ ErrorEnvelopeAnswer

\* C8: on a transport failure, a non-2xx response or an envelope carrying an
\* error object, getVulnerabilities returns an error with an empty finding
\* list (for an error envelope the message is the analyzer's), start never
\* evaluates the approval decision, and the process ends with a non-zero
\* status: through "Analyzing failed" unless a signal ends it first.
C8_FetchFailureAborts ==
    FailedAnswer =>
        /\ ~panicking
        /\ phase \in {"running", "exited"}
        /\ startSteps[step] = "getVulnerabilities"
        /\ vulnerabilities = <<>>
        /\ decision = NoDecision
        /\ ~InSeq("vulnerabilitiesApproved", trace)
        /\ FetchReturned =>
             /\ ~err.nil
             /\ ErrorEnvelopeAnswer => err.msg = response.Body.Error.Message
        /\ Exited =>
             /\ exit.code = 1
             /\ \/ exit.outcome = "interrupted"
                \/ /\ exit.outcome = "analyze"
                   /\ exit.msg = "Analyzing failed: " \o err.msg

C8_Witness ==
    /\ ErrorEnvelopeAnswer
    /\ Exited
    /\ exit.outcome = "analyze"
    /\ exit.msg = "Analyzing failed: layer unknown"

\* C9: for every layer-ID sequence the Image Source returns,
\* getVulnerabilities issues exactly one fetch to the analyzer, and it is for
\* the last LayerID of the sequence.
C9_OneFetchOfTopLayer ==
    InSeq("getVulnerabilities", trace) =>
        /\ Len(requests) = 1
        /\ Len(layerIds) > 0
        /\ requests[1] = FetchURL(ClairURL, layerIds[Len(layerIds)])

\* C10: for every 200 response, including one whose envelope carries
\* neither an error object nor a layer object, fetchLayerVulnerabilities
\* returns a layer or an error, and the run continues or aborts with a
\* diagnostic; it never crashes on the absent layer.
C10_EnvelopeNeverCrashes ==
    (/\ response # NoResponse
     /\ response.err.nil
     /\ response.StatusCode = 200)
    => ~panicking

====
